---- MODULE Spec2Model ----
(***************************************************************************)
(* PrismaSchemaUtilsService (amplication-server, core/prismaSchemaUtils):   *)
(* the import of a Prisma schema.  The parsed schema (schema.list) is       *)
(* normalised in place by the operation list (handleModelNamesRenaming,     *)
(* handleIdField), projected to entities and fields                         *)
(* (prepareEntitiesWithFields) and validated structurally                   *)
(* (validateSchemaProcessing).                                              *)
(*                                                                         *)
(* A string built by a template literal is a sequence of tokens: the        *)
(* attribute "@@map([a, b])" is <<"@@", "map", "(", "[", "a", ", ", "b",   *)
(* "]", ")">>.  A JavaScript value that may be undefined is a record        *)
(* [defined, items].                                                        *)
(***************************************************************************)
EXTENDS Integers, Sequences, FiniteSets, TLC

VARIABLES
  initialSchema,    \* the schema as parsed from the text, before any operation
  list,             \* builder.getSchema().list, mutated in place
  pc,               \* "parsed" | "renamed" | "prepared" | "projected" | "validated"
  pass,             \* runs of the operation list that are complete
  before,           \* list as it was when the latest operation started
  firstPass,        \* list as it was when the first run of the operation list ended
  pick,             \* which of several declarations of one name the builder selects
  preparedEntities, \* what prepareEntitiesWithFields returns
  errors            \* what validateSchemaProcessing returns

vars == <<initialSchema, list, pc, pass, before, firstPass, pick,
          preparedEntities, errors>>

---------------------------------------------------------------------------
(* Bounds of the model *)

MaxModels == 2
MaxFields == 3
MaxAttributes == 2
MaxPasses == 2

---------------------------------------------------------------------------
(* Values *)

Undefined == [defined |-> FALSE, items |-> <<>>]

Defined(s) == [defined |-> TRUE, items |-> s]

Range(s) == {s[i] : i \in 1..Len(s)}

Min(S) == CHOOSE x \in S : \A y \in S : x <= y

Max(S) == CHOOSE x \in S : \A y \in S : x >= y

RECURSIVE Join(_, _)
Join(ss, sep) ==
  IF ss = <<>> THEN <<>>
  ELSE IF Len(ss) = 1 THEN Head(ss)
  ELSE Head(ss) \o <<sep>> \o Join(Tail(ss), sep)

StartsWith(s, p) == Len(s) >= Len(p) /\ SubSeq(s, 1, Len(p)) = p

(* An attribute argument's value: a string, or an object with a type. *)
ScalarValue(v) == [type |-> "scalar", value |-> v]

ArrayValue(a) == [type |-> "array", args |-> a]

KeyValue(k, v) == [type |-> "keyValue", key |-> k, value |-> v]

FunctionValue(n) == [type |-> "function", name |-> n]

Attribute(kind, name, args) ==
  [type |-> "attribute", kind |-> kind, name |-> name, args |-> args]

Field(name, optional, attributes) ==
  [type |-> "field", name |-> name, fieldType |-> "String",
   optional |-> optional, attributes |-> attributes]

Model(name, properties) ==
  [type |-> "model", name |-> name, properties |-> properties]

Enum(name) == [type |-> "enum", name |-> name, properties |-> <<>>]

AttributeArgument(v) == [type |-> "attributeArgument", value |-> v]

---------------------------------------------------------------------------
(* The collaborators: pluralize, pascal-case, ./schema-utils, prisma-ast *)

(* pluralize.isPlural on the names of the model *)
isPlural(name) == name = "Users"

(* pluralize.singular *)
singular(name) == IF name = "Users" THEN "User" ELSE name

(* pluralize(name): the plural form *)
pluralize(name) ==
  CASE name = "User" -> "Users"
    [] name = "UserPost" -> "UserPosts"
    [] name = "user_post" -> "user_posts"
    [] OTHER -> name

(* String.prototype.includes("_") *)
includesUnderscore(name) == name = "user_post"

capitalizeFirstLetter(name) == IF name = "user_post" THEN "User_post" ELSE name

pascalCase(name) == IF name = "user_post" THEN "UserPost" ELSE name

(* schema-utils: the singular, pascal-case form of a model name *)
handleModelName(modelName) ==
  LET s == IF isPlural(modelName)
           THEN capitalizeFirstLetter(singular(modelName))
           ELSE modelName
  IN  IF includesUnderscore(s) THEN pascalCase(s) ELSE s

(* schema-utils: the default-value functions that make an id, and the
   properties each stands for *)
idTypePropertyMap(name) ==
  CASE name = "autoincrement" -> Defined(<<"AUTO_INCREMENT">>)
    [] name = "cuid" -> Defined(<<"CUID">>)
    [] name = "uuid" -> Defined(<<"UUID">>)
    [] OTHER -> Undefined

(* schema-utils: the serialized attributes amplication keeps to itself *)
ReservedPrefixes ==
  { <<"@", "id">>, <<"@", "updatedAt">>, <<"@", "relation">>,
    <<"@", "default", "(", "now()", ")">>,
    <<"@", "default", "(", "cuid()", ")">>,
    <<"@", "default", "(", "uuid()", ")">>,
    <<"@", "default", "(", "autoincrement()", ")">> }

IsReserved(attribute) == \E p \in ReservedPrefixes : StartsWith(attribute, p)

filterOutAmplicationAttributes(attributes) ==
  SelectSeq(attributes, LAMBDA a : ~IsReserved(a))

(* prisma-ast: of several blocks or fields of one name the builder selects
   one; which one is the library's choice *)
Locate(S) == IF pick = "last" THEN Max(S) ELSE Min(S)

(* builder.model(name): selects the model of that name, adding an empty one
   when there is none *)
BuilderModel(l, name) ==
  LET S == {i \in 1..Len(l) : l[i].type = "model" /\ l[i].name = name}
  IN  IF S = {}
      THEN [list |-> Append(l, Model(name, <<>>)), model |-> Len(l) + 1]
      ELSE [list |-> l, model |-> Locate(S)]

(* builder.model(..).field(name): selects the field of that name in the
   selected model, adding one when there is none *)
BuilderField(b, name) ==
  LET props == b.list[b.model].properties
      S == {j \in 1..Len(props) : props[j].type = "field" /\ props[j].name = name}
  IN  IF S = {}
      THEN [list |-> [b.list EXCEPT ![b.model].properties =
                        Append(props, Field(name, FALSE, Undefined))],
            model |-> b.model, field |-> Len(props) + 1]
      ELSE [list |-> b.list, model |-> b.model, field |-> Locate(S)]

(* builder.blockAttribute(name, string): appends a model-level attribute
   whose one argument is the quoted string *)
BuilderBlockAttribute(b, name, arg) ==
  [b.list EXCEPT ![b.model].properties =
     Append(@, Attribute("model", name,
                 Defined(<<AttributeArgument(ScalarValue("\"" \o arg \o "\""))>>)))]

fieldAttributes(f) == IF f.attributes.defined THEN f.attributes.items ELSE <<>>

(* builder.attribute(name, args): appends a field-level attribute to the
   selected field *)
BuilderAttribute(b, name, args) ==
  [b.list EXCEPT ![b.model].properties[b.field].attributes =
     Defined(Append(fieldAttributes(b.list[b.model].properties[b.field]),
               Attribute("field", name,
                 Defined([i \in 1..Len(args) |->
                            AttributeArgument(ScalarValue(args[i]))]))))]

---------------------------------------------------------------------------
(* The operations of prepareSchema *)

(* schema.list.filter((item) => item.type === "model"), as positions *)
Models(l) ==
  SelectSeq([i \in 1..Len(l) |-> i], LAMBDA i : l[i].type = "model")

(* a slip: both conditions asked for *)
isInvalidModelNameBoth(name) == isPlural(name) /\ includesUnderscore(name)

isInvalidModelName(name) == isPlural(name) \/ includesUnderscore(name)

(* the callback of models.map in handleModelNamesRenaming, on the model at k *)
RenameModel(l, k) ==
  LET name == l[k].name
  IN  IF isInvalidModelName(name)
      THEN LET mapped  == BuilderBlockAttribute(BuilderModel(l, name), "map", name)
               b       == BuilderModel(mapped, name)
           IN  [b.list EXCEPT ![b.model].name = handleModelName(b.list[b.model].name)]
      ELSE l

RECURSIVE RenameModels(_, _)
RenameModels(l, models) ==
  IF models = <<>> THEN l
  ELSE RenameModels(RenameModel(l, Head(models)), Tail(models))

handleModelNamesRenaming(l) == RenameModels(l, Models(l))

hasAttribute(property, name) ==
  /\ property.attributes.defined
  /\ \E a \in Range(property.attributes.items) : a.name = name

(* model.properties.find(a field with an attribute named "id"): its position,
   0 when there is none *)
idField(model) ==
  LET S == {j \in 1..Len(model.properties) :
              /\ model.properties[j].type = "field"
              /\ hasAttribute(model.properties[j], "id")}
  IN  IF S = {} THEN 0 ELSE Min(S)

(* the callback of models.map in handleIdField, on the model at k *)
RenameIdField(l, k) ==
  LET model == l[k]
      j == idField(model)
  IN  IF j # 0 /\ model.properties[j].name # "id"
      THEN LET name   == model.properties[j].name
               mapped == BuilderAttribute(
                           BuilderField(BuilderModel(l, model.name), name),
                           "map", <<name>>)
               b      == BuilderField(BuilderModel(mapped, model.name), name)
           IN  [b.list EXCEPT ![b.model].properties[b.field].name = "id"]
      ELSE l

RECURSIVE RenameIdFields(_, _)
RenameIdFields(l, models) ==
  IF models = <<>> THEN l
  ELSE RenameIdFields(RenameIdField(l, Head(models)), Tail(models))

handleIdField(l) == RenameIdFields(l, Models(l))

---------------------------------------------------------------------------
(* The projection *)

(* one argument of an attribute, as prepareAttributes writes it; an object
   that is neither an array nor a keyValue gives undefined, which join
   writes as the empty string *)
prepareArg(arg) ==
  CASE arg.value.type = "array" ->
         <<"[">> \o Join([i \in 1..Len(arg.value.args) |-> <<arg.value.args[i]>>], ", ")
                 \o <<"]">>
    [] arg.value.type = "keyValue" -> <<arg.value.key, ": ", arg.value.value>>
    [] arg.value.type = "scalar" -> <<arg.value.value>>
    [] OTHER -> <<>>

(* !attribute.args && !attribute.args?.length *)
hasNoArgs(attribute) ==
  ~attribute.args.defined
    /\ (~attribute.args.defined \/ Len(attribute.args.items) = 0)

prepareAttribute(attribute) ==
  IF hasNoArgs(attribute)
  THEN <<IF attribute.kind = "model" THEN "@@" ELSE "@", attribute.name>>
  ELSE <<IF attribute.kind = "model" THEN "@@" ELSE "@", attribute.name, "(">>
         \o Join([i \in 1..Len(attribute.args.items) |->
                    prepareArg(attribute.args.items[i])], ", ")
         \o <<")">>

prepareAttributes(attributes) ==
  IF ~attributes.defined THEN <<>>
  ELSE [i \in 1..Len(attributes.items) |-> prepareAttribute(attributes.items[i])]

(* prepareFiledProperties: [threw, value]; reading args[0] of an attribute
   without args, or .value of a missing first argument, is a TypeError *)
prepareFiledProperties(field) ==
  LET S == {i \in 1..Len(fieldAttributes(field)) :
              fieldAttributes(field)[i].name = "default"}
  IN  IF S = {} THEN [threw |-> FALSE, value |-> Undefined]
      ELSE LET defaultIdAttribute == fieldAttributes(field)[Min(S)]
           IN  IF \/ ~defaultIdAttribute.args.defined
                  \/ defaultIdAttribute.args.items = <<>>
               THEN [threw |-> TRUE, value |-> Undefined]
               ELSE LET value == defaultIdAttribute.args.items[1].value
                    IN  [threw |-> FALSE,
                         value |-> IF value.type = "function"
                                   THEN idTypePropertyMap(value.name)
                                   ELSE Undefined]

(* a slip: the filter left out *)
fieldCustomAttributesUnfiltered(field) == prepareAttributes(field.attributes)

(* filterOutAmplicationAttributes(this.prepareAttributes(field.attributes)) *)
fieldCustomAttributes(field) ==
  filterOutAmplicationAttributes(prepareAttributes(field.attributes))

prepareEntityField(field) ==
  [name |-> field.name,
   displayName |-> field.name,
   dataType |-> field.type,
   required |-> field.optional,
   unique |-> hasAttribute(field, "unique"),
   searchable |-> FALSE,
   description |-> "null",
   properties |-> prepareFiledProperties(field).value,
   customAttributes |-> fieldCustomAttributes(field)]

prepareEntityFields(model) ==
  LET modelFields == SelectSeq(model.properties, LAMBDA prop : prop.type = "field")
  IN  [threw |-> \E f \in Range(modelFields) : prepareFiledProperties(f).threw,
       fields |-> [i \in 1..Len(modelFields) |-> prepareEntityField(modelFields[i])]]

prepareEntity(model) ==
  LET modelAttributes ==
        SelectSeq(model.properties, LAMBDA prop : prop.type = "attribute")
  IN  [name |-> model.name,
       displayName |-> model.name,
       pluralDisplayName |-> pluralize(model.name),
       description |-> "null",
       customAttributes |-> prepareAttributes(Defined(modelAttributes))]

(* the map over the models of the prepared schema: [threw, entities] *)
prepareEntities(l) ==
  LET models == Models(l)
  IN  IF \E i \in Range(models) : prepareEntityFields(l[i]).threw
      THEN [threw |-> TRUE, entities |-> <<>>]
      ELSE [threw |-> FALSE,
            entities |-> [n \in 1..Len(models) |->
               [entity |-> prepareEntity(l[models[n]]),
                fields |-> prepareEntityFields(l[models[n]]).fields]]]

---------------------------------------------------------------------------
(* The structural validation *)

Null == Undefined

NoModelsError ==
  [message |-> "NoModels", level |-> "Error",
   details |-> "A schema must contain at least one model"]

(* a slip: every declaration counted as a model *)
validateSchemaProcessingAnyDeclaration(l) ==
  IF Len(l) = 0 THEN Defined(<<NoModelsError>>) ELSE Null

validateSchemaProcessing(l) ==
  LET models == Models(l)
      errs == IF Len(models) = 0 THEN <<NoModelsError>> ELSE <<>>
  IN  IF Len(errs) > 0 THEN Defined(errs) ELSE Null

---------------------------------------------------------------------------
(* The schemas that are imported.  A schema that Prisma accepts declares no
   two models of one name and, in a model, no two fields of one name. *)

ModelNames == {"User", "Users", "user_post"}

FieldNames == {"id", "userId", "title"}

IdAttribute == Attribute("field", "id", Undefined)

(* a field without attributes, or the field id or userId with the attribute
   @id alone *)
PlainFields ==
  {Field(n, FALSE, Undefined) : n \in FieldNames}
    \cup {Field(n, FALSE, Defined(<<IdAttribute>>)) : n \in {"id", "userId"}}

(* the lists of at most n plain fields with names among the given ones *)
RECURSIVE FieldLists(_, _)
FieldLists(names, n) ==
  {<<>>} \cup
  (IF n = 0 THEN {}
   ELSE UNION {{<<f>> \o rest : rest \in FieldLists(names \ {f.name}, n - 1)} :
                 f \in {g \in PlainFields : g.name \in names}})

(* the lists of at most m models with names among the given ones and at most
   n fields in all *)
RECURSIVE ModelLists(_, _, _)
ModelLists(names, m, n) ==
  {<<>>} \cup
  (IF m = 0 THEN {}
   ELSE UNION {UNION {{<<Model(name, fields)>> \o rest :
                         rest \in ModelLists(names \ {name}, m - 1, n - Len(fields))} :
                        fields \in FieldLists(FieldNames, n)} :
                 name \in names})

ArgsChoices ==
  { Undefined,
    Defined(<<>>),
    Defined(<<AttributeArgument(ScalarValue("1"))>>),
    Defined(<<AttributeArgument(FunctionValue("autoincrement"))>>),
    Defined(<<AttributeArgument(FunctionValue("dbgenerated"))>>),
    Defined(<<AttributeArgument(ArrayValue(<<"a", "b">>)),
              AttributeArgument(KeyValue("map", "x"))>>) }

FieldAttributes ==
  {Attribute("field", n, a) : n \in {"id", "unique", "default"}, a \in ArgsChoices}

RECURSIVE AttributeLists(_)
AttributeLists(n) ==
  {<<>>} \cup
  (IF n = 0 THEN {}
   ELSE {<<a>> \o rest : a \in FieldAttributes, rest \in AttributeLists(n - 1)})

BlockAttribute ==
  Attribute("model", "id",
            Defined(<<AttributeArgument(ArrayValue(<<"userId", "title">>))>>))

(* one model with one field of any attributes *)
AttributeSchemas ==
  {<<Model("Users", <<Field("userId", optional, Defined(attributes))>>)>> :
     optional \in BOOLEAN, attributes \in AttributeLists(MaxAttributes)}

(* an enum, alone or before one model that has a model-level attribute
   before or after its fields *)
EnumSchemas ==
  {<<Enum("Role")>>}
    \cup {<<Enum("Role"), Model(name, properties)>> :
            name \in ModelNames,
            properties \in
              UNION {{fields \o <<BlockAttribute>>, <<BlockAttribute>> \o fields} :
                       fields \in FieldLists(FieldNames, MaxFields)}}

Schemas == ModelLists(ModelNames, MaxModels, MaxFields) \cup AttributeSchemas \cup EnumSchemas

---------------------------------------------------------------------------
(* The state machine *)

Init ==
  /\ initialSchema \in Schemas
  /\ list = initialSchema
  /\ pc = "parsed"
  /\ pass = 0
  /\ before = initialSchema
  /\ firstPass = initialSchema
  /\ pick \in {"first", "last"}
  /\ preparedEntities = [threw |-> FALSE, entities |-> <<>>]
  /\ errors = Null

(* operations[0], in a first or a further run of the operation list *)
HandleModelNamesRenaming ==
  /\ pc = "parsed" \/ (pc = "prepared" /\ pass < MaxPasses)
  /\ before' = list
  /\ list' = handleModelNamesRenaming(list)
  /\ pc' = "renamed"
  /\ UNCHANGED <<initialSchema, pass, firstPass, pick, preparedEntities, errors>>

(* operations[1] *)
HandleIdField ==
  /\ pc = "renamed"
  /\ before' = list
  /\ list' = handleIdField(list)
  /\ pc' = "prepared"
  /\ pass' = pass + 1
  /\ firstPass' = IF pass = 0 THEN list' ELSE firstPass
  /\ UNCHANGED <<initialSchema, pick, preparedEntities, errors>>

(* prepareEntitiesWithFields, once the schema is prepared *)
PrepareEntitiesWithFields ==
  /\ pc = "prepared"
  /\ pass = 1
  /\ preparedEntities' = prepareEntities(list)
  /\ pc' = "projected"
  /\ UNCHANGED <<initialSchema, list, pass, before, firstPass, pick, errors>>

ValidateSchemaProcessing ==
  /\ pc = "parsed"
  /\ errors' = validateSchemaProcessing(initialSchema)
  /\ pc' = "validated"
  /\ UNCHANGED <<initialSchema, list, pass, before, firstPass, pick, preparedEntities>>

Next ==
  \/ HandleModelNamesRenaming
  \/ HandleIdField
  \/ PrepareEntitiesWithFields
  \/ ValidateSchemaProcessing

Spec == Init /\ [][Next]_vars

---------------------------------------------------------------------------
(* What the claims speak of *)

IsModel(l, k) == l[k].type = "model"

FieldsOf(model) == SelectSeq(model.properties, LAMBDA prop : prop.type = "field")

AttributesOf(model) == SelectSeq(model.properties, LAMBDA prop : prop.type = "attribute")

(* n-th model of the list, counting models only *)
NthModel(l, n) == l[Models(l)[n]]

NeedsRenaming(name) == isPlural(name) \/ includesUnderscore(name)

CarriesId(field) ==
  field.attributes.defined /\ \E i \in 1..Len(field.attributes.items) :
                                 field.attributes.items[i].name = "id"

(* the first declared field that carries @id; 0 when no field does *)
FirstIdField(fields) ==
  IF \E i \in 1..Len(fields) : CarriesId(fields[i])
  THEN CHOOSE i \in 1..Len(fields) :
         CarriesId(fields[i]) /\ \A h \in 1..(i - 1) : ~CarriesId(fields[h])
  ELSE 0

ModelMap(name) ==
  Attribute("model", "map", Defined(<<AttributeArgument(ScalarValue("\"" \o name \o "\""))>>))

FieldMap(name) ==
  Attribute("field", "map", Defined(<<AttributeArgument(ScalarValue(name))>>))

ModelMapString(name) == <<"@@", "map", "(", "\"" \o name \o "\"", ")">>

FieldMapString(name) == <<"@", "map", "(", name, ")">>

FieldNamesDistinct(l) ==
  \A k \in 1..Len(l) : IsModel(l, k) =>
    \A i, j \in 1..Len(FieldsOf(l[k])) :
      i # j => FieldsOf(l[k])[i].name # FieldsOf(l[k])[j].name

HasZeroArgs(attribute) ==
  ~attribute.args.defined \/ Len(attribute.args.items) = 0

Projected == pc = "projected" /\ ~preparedEntities.threw

---------------------------------------------------------------------------
(* The claims *)

(* C1: in what prepareEntitiesWithFields returns, every EntityField has
   required = NOT optional of the field it was made from. *)
C1_RequiredIsNotOptional ==
  Projected =>
    \A n \in 1..Len(Models(list)) :
      \A i \in 1..Len(FieldsOf(NthModel(list, n))) :
        preparedEntities.entities[n].fields[i].required
          = ~FieldsOf(NthModel(list, n))[i].optional

(* C2: after one run of handleModelNamesRenaming then handleIdField on a
   schema whose model names are pairwise distinct, in every model the first
   declared field that carries @id is named id and, if it was renamed, has
   the attribute @map(original name) appended; every other field of every
   model is as it was, and no field is added. *)
C2_FirstIdFieldIsNamedId ==
  (pc = "prepared" /\ pass = 1) =>
    /\ Len(list) = Len(initialSchema)
    /\ \A k \in 1..Len(initialSchema) : IsModel(initialSchema, k) =>
         LET orig == FieldsOf(initialSchema[k])
             cur  == FieldsOf(list[k])
             j    == FirstIdField(orig)
         IN  /\ Len(cur) = Len(orig)
             /\ \A i \in 1..Len(orig) :
                  IF i = j /\ orig[i].name # "id"
                  THEN cur[i] =
                         [orig[i] EXCEPT
                            !.name = "id",
                            !.attributes =
                               Defined(Append(orig[i].attributes.items,
                                              FieldMap(orig[i].name)))]
                  ELSE cur[i] = orig[i]

(* C3: handleModelNamesRenaming leaves the list of declarations as long as
   it was; a model whose name is plural or contains an underscore gets the
   attribute @@map("original name") appended to its properties and its name
   rewritten to the singular, underscore-free form; every other declaration
   is unchanged. *)
C3_ModelNamesRenamed ==
  pc = "renamed" =>
    /\ Len(list) = Len(before)
    /\ \A k \in 1..Len(before) :
         IF IsModel(before, k) /\ NeedsRenaming(before[k].name)
         THEN /\ list[k].type = "model"
              /\ list[k].properties
                   = Append(before[k].properties, ModelMap(before[k].name))
              /\ list[k].name = handleModelName(before[k].name)
              /\ ~NeedsRenaming(list[k].name)
         ELSE list[k] = before[k]

(* C3, witness: the operation has run on a schema with a plural name, a
   name with an underscore, or both kinds beside a name that needs nothing *)
C3_Witness ==
  /\ pc = "renamed"
  /\ pass = 0
  /\ \E k \in 1..Len(before) : IsModel(before, k) /\ NeedsRenaming(before[k].name)
  /\ \E k \in 1..Len(before) : IsModel(before, k) /\ ~NeedsRenaming(before[k].name)
  /\ \E k \in 1..Len(list) : \E i \in 1..Len(list[k].properties) :
       list[k].properties[i] = ModelMap("Users")

(* C4: after one run of the operation list on a schema whose model names
   are pairwise distinct, the model names are still pairwise distinct, and
   each is singular and without underscore. *)
C4_CanonicalNamesDistinct ==
  (pc = "prepared" /\ pass = 1) =>
    /\ \A i, j \in 1..Len(list) :
         (i # j /\ IsModel(list, i) /\ IsModel(list, j)) => list[i].name # list[j].name
    /\ \A i \in 1..Len(list) : IsModel(list, i) => ~NeedsRenaming(list[i].name)

(* C5: a second run of the operation list on the schema the first run
   produced changes nothing. *)
C5_SecondRunChangesNothing ==
  (pc = "prepared" /\ pass = 2) => list = firstPass

(* C6: in what prepareEntitiesWithFields returns, no customAttributes of an
   Entity or of an EntityField holds a reserved attribute; the Entity of a
   model that was renamed holds @@map("original name"), and for a field
   that carried @id under another name than id there is an EntityField
   named id that holds @map(original name). *)
C6_NoReservedAttributeExposed ==
  Projected =>
    /\ \A n \in 1..Len(preparedEntities.entities) :
         LET e == preparedEntities.entities[n]
         IN  /\ \A i \in 1..Len(e.entity.customAttributes) :
                  ~IsReserved(e.entity.customAttributes[i])
             /\ \A f \in 1..Len(e.fields) :
                  \A i \in 1..Len(e.fields[f].customAttributes) :
                    ~IsReserved(e.fields[f].customAttributes[i])
    /\ \A n \in 1..Len(Models(initialSchema)) :
         LET orig == NthModel(initialSchema, n)
             j    == FirstIdField(FieldsOf(orig))
         IN  /\ NeedsRenaming(orig.name) =>
                  \E i \in 1..Len(preparedEntities.entities[n].entity.customAttributes) :
                    preparedEntities.entities[n].entity.customAttributes[i]
                      = ModelMapString(orig.name)
             /\ (j # 0 /\ FieldsOf(orig)[j].name # "id") =>
                  \E m \in 1..Len(preparedEntities.entities) :
                    \E f \in 1..Len(preparedEntities.entities[m].fields) :
                      LET ef == preparedEntities.entities[m].fields[f]
                      IN  /\ ef.name = "id"
                          /\ \E i \in 1..Len(ef.customAttributes) :
                               ef.customAttributes[i]
                                 = FieldMapString(FieldsOf(orig)[j].name)

(* C6, witness: a model that was renamed, with a field that carried @id
   under another name, has been projected *)
C6_Witness ==
  /\ Projected
  /\ Len(preparedEntities.entities) = 1
  /\ \E i \in 1..Len(preparedEntities.entities[1].entity.customAttributes) :
       preparedEntities.entities[1].entity.customAttributes[i] = ModelMapString("Users")
  /\ \E f \in 1..Len(preparedEntities.entities[1].fields) :
       /\ preparedEntities.entities[1].fields[f].name = "id"
       /\ preparedEntities.entities[1].fields[f].customAttributes
            = <<FieldMapString("userId")>>
       /\ CarriesId(FieldsOf(NthModel(list, 1))[f])

(* C7: validateSchemaProcessing returns the list of the one no-models error
   when the schema declares no model, whatever else it declares, and null
   when it declares a model. *)
C7_NoModelsError ==
  pc = "validated" =>
    errors = IF \E k \in 1..Len(initialSchema) : initialSchema[k].type = "model"
             THEN Null
             ELSE Defined(<<[message |-> "NoModels", level |-> "Error",
                             details |-> "A schema must contain at least one model"]>>)

(* C7, witness: a schema that declares an enum and no model was validated
   and the error returned *)
C7_Witness ==
  /\ pc = "validated"
  /\ Len(initialSchema) > 0
  /\ \A k \in 1..Len(initialSchema) : initialSchema[k].type = "enum"
  /\ errors.defined
  /\ Len(errors.items) = 1

(* what C8 asks of one attribute: without parentheses when it has no args *)
C8_Expected(attribute) ==
  IF HasZeroArgs(attribute)
  THEN <<IF attribute.kind = "model" THEN "@@" ELSE "@", attribute.name>>
  ELSE prepareAttribute(attribute)

(* C8: every attribute that has zero args, its args absent or an empty
   list, is written without parentheses, as @name or @@name, in the
   customAttributes of what prepareEntitiesWithFields returns. *)
C8_ZeroArgsWithoutParentheses ==
  Projected =>
    \A n \in 1..Len(Models(list)) :
      /\ preparedEntities.entities[n].entity.customAttributes
           = [i \in 1..Len(AttributesOf(NthModel(list, n))) |->
                C8_Expected(AttributesOf(NthModel(list, n))[i])]
      /\ \A f \in 1..Len(FieldsOf(NthModel(list, n))) :
           preparedEntities.entities[n].fields[f].customAttributes
             = filterOutAmplicationAttributes(
                 [i \in 1..Len(fieldAttributes(FieldsOf(NthModel(list, n))[f])) |->
                    C8_Expected(fieldAttributes(FieldsOf(NthModel(list, n))[f])[i])])

(* what C9 asks of one field: the descriptor when the first default
   attribute has a function of idTypePropertyMap as first argument *)
C9_Expected(field) ==
  LET S == {i \in 1..Len(fieldAttributes(field)) :
              fieldAttributes(field)[i].name = "default"}
      d == fieldAttributes(field)[Min(S)]
  IN  IF /\ S # {}
         /\ d.args.defined
         /\ Len(d.args.items) > 0
         /\ d.args.items[1].value.type = "function"
      THEN idTypePropertyMap(d.args.items[1].value.name)
      ELSE Undefined

(* C9: prepareFiledProperties raises no error on any field: the projection
   of a prepared schema always returns, with the descriptor of the table for
   a default that names one of its functions and undefined otherwise. *)
C9_PropertiesTotal ==
  pc = "projected" =>
    /\ ~preparedEntities.threw
    /\ \A n \in 1..Len(Models(list)) :
         \A f \in 1..Len(FieldsOf(NthModel(list, n))) :
           preparedEntities.entities[n].fields[f].properties
             = C9_Expected(FieldsOf(NthModel(list, n))[f])

(* C10: handleIdField, on a schema whose field names are pairwise distinct
   within each model, leaves them pairwise distinct within each model, and
   adds no field and no model. *)
C10_FieldNamesStayDistinct ==
  (pc = "prepared" /\ FieldNamesDistinct(before)) =>
    /\ Len(list) = Len(before)
    /\ \A k \in 1..Len(before) :
         IsModel(before, k) => Len(FieldsOf(list[k])) = Len(FieldsOf(before[k]))
    /\ FieldNamesDistinct(list)

====
